---- MODULE Spec2Model ----
(***************************************************************************)
(* The RobotModel binding surface of torch-moveit (src/robot_model.cpp).   *)
(*                                                                         *)
(* A handle is a heap-allocated RobotModelPtr (a shared pointer to a       *)
(* robot model).  The exported functions allocate a handle, delete it,     *)
(* reset its shared pointer and forward five queries to the model the      *)
(* shared pointer refers to.  The model below keeps the heap of handles,   *)
(* the shared pointers' reference counts, the models' text attributes,     *)
(* what the last call returned and the text views handed to the caller.    *)
(*                                                                         *)
(* Handles and models are object identities: a pointer to a deleted        *)
(* handle stays invalid even when the allocator hands the same address     *)
(* out again.  A call whose behaviour is undefined sets ub and yields one  *)
(* of UBOutcomes; nothing is modelled after it.                            *)
(***************************************************************************)
EXTENDS Integers, Sequences, FiniteSets, TLC

\* Bounds of the model.
MaxHandles == 2
MaxModels == 2

Handles == 1..MaxHandles
Models == 1..MaxModels

\* The null RobotModelPtr* and the empty shared pointer (px == 0).
NULL == 0
None == 0

\* Characters of a std::string; NUL is the character '\0'.
NUL == "\\0"

\* What the external loader can construct: the attributes of a robot model.
\* A std::string may hold '\0'; a description without a root link is empty.
Descriptions ==
  { [model_name |-> <<"p", "a">>, model_frame |-> <<"/", "w">>,
     root_joint |-> <<"j">>, is_empty |-> FALSE],
    [model_name |-> <<"p", NUL, "a">>, model_frame |-> <<>>,
     root_joint |-> <<"v">>, is_empty |-> TRUE] }

\* The attributes of a model that is not alive.
NoDescription ==
  [model_name |-> <<>>, model_frame |-> <<>>, root_joint |-> <<>>, is_empty |-> TRUE]

\* What a call with undefined behaviour can do: trap, or go on with an
\* indeterminate result.
UBOutcomes == {"trap", "indeterminate"}

VARIABLES
  heap,       \* handle -> "unalloc" | "alloc" | "freed"
  px,         \* handle -> the model its shared pointer refers to, or None
  mstate,     \* model -> "unborn" | "live" | "freed"
  use_count,  \* model -> number of shared pointers that refer to it
  attr,       \* model -> its attributes (a description)
  last,       \* the last call: [op, arg, val]
  view,       \* handle -> the text view the last call on it returned
  output,     \* the caller's std::string passed to printModelInfo
  cleared,    \* handles emptied by release and still empty
  ub          \* undefined behaviour has been reached

vars == <<heap, px, mstate, use_count, attr, last, view, output, cleared, ub>>

\* No text view is outstanding on a handle.
NoView == [op |-> "none", m |-> None, val |-> <<>>]

\* The handles the caller can pass: null, or a pointer new returned.
Args == {NULL} \cup {h \in Handles : heap[h] # "unalloc"}

\* A const char* read as a C string: the characters before the first '\0'.
RECURSIVE c_str(_)
c_str(s) ==
  IF s = <<>> \/ Head(s) = NUL THEN <<>> ELSE <<Head(s)>> \o c_str(Tail(s))

\* The state of the handle a call receives.
Pre(h) ==
  IF h = NULL THEN "null"
  ELSE IF heap[h] = "freed" THEN "freed"
  ELSE IF px[h] = None THEN "empty"
  ELSE "populated"

\* boost::shared_ptr: dropping one reference to m frees it with the last one.
DropRef(m) ==
  /\ use_count' = [use_count EXCEPT ![m] = @ - 1]
  /\ mstate' = [mstate EXCEPT ![m] = IF use_count[m] = 1 THEN "freed" ELSE @]
  /\ attr' = [attr EXCEPT ![m] = IF use_count[m] = 1 THEN NoDescription ELSE @]

\* A call whose behaviour is undefined.
Undefined(op, h) ==
  /\ \E o \in UBOutcomes : last' = [op |-> op, arg |-> h, val |-> o]
  /\ ub' = TRUE
  /\ UNCHANGED <<heap, px, mstate, use_count, attr, view, output, cleared>>

\* The shape of the state.
TypeOK ==
  /\ heap \in [Handles -> {"unalloc", "alloc", "freed"}]
  /\ px \in [Handles -> Models \cup {None}]
  /\ mstate \in [Models -> {"unborn", "live", "freed"}]
  /\ use_count \in [Models -> 0..MaxHandles]
  /\ attr \in [Models -> Descriptions \cup {NoDescription}]
  /\ last.arg \in Handles \cup {NULL}
  /\ \A h \in Handles : view[h].m \in Models \cup {None}
  /\ cleared \subseteq Handles
  /\ ub \in BOOLEAN

Init ==
  /\ heap = [h \in Handles |-> "unalloc"]
  /\ px = [h \in Handles |-> None]
  /\ mstate = [m \in Models |-> "unborn"]
  /\ use_count = [m \in Models |-> 0]
  /\ attr = [m \in Models |-> NoDescription]
  /\ last = [op |-> "init", arg |-> NULL, val |-> "void"]
  /\ view = [h \in Handles |-> NoView]
  /\ output = <<>>
  /\ cleared = {}
  /\ ub = FALSE

\* Variant of New: hands out a handle that may still be in use (as a pointer
\* to one static RobotModelPtr would).
NewAliased(h) ==
  /\ ~ub
  /\ heap[h] # "freed"
  /\ \A g \in Handles : heap[g] # "freed" => h <= g
  /\ heap' = [heap EXCEPT ![h] = "alloc"]
  /\ px' = [px EXCEPT ![h] = None]
  /\ last' = [op |-> "new", arg |-> NULL, val |-> h]
  /\ UNCHANGED <<mstate, use_count, attr, view, output, cleared, ub>>

\* RobotModel_new: return new RobotModelPtr().
New(h) ==
  /\ ~ub
  /\ heap[h] = "unalloc"
  /\ \A g \in Handles : heap[g] = "unalloc" => h <= g
  /\ heap' = [heap EXCEPT ![h] = "alloc"]
  /\ px' = [px EXCEPT ![h] = None]
  /\ last' = [op |-> "new", arg |-> NULL, val |-> h]
  /\ UNCHANGED <<mstate, use_count, attr, view, output, cleared, ub>>

\* Variant of Delete: frees the handle's memory without running the shared
\* pointer's destructor (free(ptr) in place of delete ptr).
DeleteNoDestructor(h) ==
  /\ ~ub
  /\ h \in Args
  /\ \/ /\ h = NULL
        /\ last' = [op |-> "delete", arg |-> h, val |-> "void"]
        /\ UNCHANGED <<heap, px, mstate, use_count, attr, view, output, cleared, ub>>
     \/ /\ h # NULL
        /\ heap[h] = "alloc"
        /\ heap' = [heap EXCEPT ![h] = "freed"]
        /\ px' = [px EXCEPT ![h] = None]
        /\ view' = [view EXCEPT ![h] = NoView]
        /\ cleared' = cleared \ {h}
        /\ last' = [op |-> "delete", arg |-> h, val |-> "void"]
        /\ UNCHANGED <<mstate, use_count, attr, output, ub>>
     \/ /\ h # NULL
        /\ heap[h] = "freed"
        /\ Undefined("delete", h)

\* Variant of Delete: no null guard (delete ptr with ptr dereferenced first).
DeleteUnguarded(h) ==
  /\ ~ub
  /\ h \in Args
  /\ \/ /\ Pre(h) \in {"null", "freed"}
        /\ Undefined("delete", h)
     \/ /\ h # NULL
        /\ heap[h] = "alloc"
        /\ heap' = [heap EXCEPT ![h] = "freed"]
        /\ px' = [px EXCEPT ![h] = None]
        /\ IF px[h] # None THEN DropRef(px[h])
                           ELSE UNCHANGED <<mstate, use_count, attr>>
        /\ view' = [view EXCEPT ![h] = NoView]
        /\ cleared' = cleared \ {h}
        /\ last' = [op |-> "delete", arg |-> h, val |-> "void"]
        /\ UNCHANGED <<output, ub>>

\* RobotModel_delete: if (ptr) delete ptr.
Delete(h) ==
  /\ ~ub
  /\ h \in Args
  /\ \/ /\ h = NULL
        /\ last' = [op |-> "delete", arg |-> h, val |-> "void"]
        /\ UNCHANGED <<heap, px, mstate, use_count, attr, view, output, cleared, ub>>
     \/ /\ h # NULL
        /\ heap[h] = "alloc"
        /\ heap' = [heap EXCEPT ![h] = "freed"]
        /\ px' = [px EXCEPT ![h] = None]
        /\ IF px[h] # None THEN DropRef(px[h])
                           ELSE UNCHANGED <<mstate, use_count, attr>>
        /\ view' = [view EXCEPT ![h] = NoView]
        /\ cleared' = cleared \ {h}
        /\ last' = [op |-> "delete", arg |-> h, val |-> "void"]
        /\ UNCHANGED <<output, ub>>
     \/ /\ h # NULL
        /\ heap[h] = "freed"
        /\ Undefined("delete", h)

\* Variant of Release: empties the slot without dropping the reference.
ReleaseLeak(h) ==
  /\ ~ub
  /\ h \in Args
  /\ \/ /\ Pre(h) \in {"null", "freed"}
        /\ Undefined("release", h)
     \/ /\ Pre(h) \in {"empty", "populated"}
        /\ px' = [px EXCEPT ![h] = None]
        /\ cleared' = IF px[h] # None THEN cleared \cup {h} ELSE cleared
        /\ view' = [view EXCEPT ![h] = NoView]
        /\ last' = [op |-> "release", arg |-> h, val |-> "void"]
        /\ UNCHANGED <<heap, mstate, use_count, attr, output, ub>>

\* Variant of Release: also deletes the handle (delete ptr in place of
\* ptr->reset()).
ReleaseDeletes(h) ==
  /\ ~ub
  /\ h \in Args
  /\ \/ /\ Pre(h) \in {"null", "freed"}
        /\ Undefined("release", h)
     \/ /\ Pre(h) \in {"empty", "populated"}
        /\ heap' = [heap EXCEPT ![h] = "freed"]
        /\ px' = [px EXCEPT ![h] = None]
        /\ IF px[h] # None THEN DropRef(px[h])
                           ELSE UNCHANGED <<mstate, use_count, attr>>
        /\ cleared' = cleared \ {h}
        /\ view' = [view EXCEPT ![h] = NoView]
        /\ last' = [op |-> "release", arg |-> h, val |-> "void"]
        /\ UNCHANGED <<output, ub>>

\* Variant of Release: destroys the model itself, whoever else shares it
\* (delete ptr->get() in place of ptr->reset()).
ReleaseDestroysModel(h) ==
  /\ ~ub
  /\ h \in Args
  /\ \/ /\ Pre(h) \in {"null", "freed"}
        /\ Undefined("release", h)
     \/ /\ Pre(h) \in {"empty", "populated"}
        /\ px' = [px EXCEPT ![h] = None]
        /\ IF px[h] # None
             THEN /\ use_count' = [use_count EXCEPT ![px[h]] = @ - 1]
                  /\ mstate' = [mstate EXCEPT ![px[h]] = "freed"]
                  /\ attr' = [attr EXCEPT ![px[h]] = NoDescription]
             ELSE UNCHANGED <<mstate, use_count, attr>>
        /\ cleared' = IF px[h] # None THEN cleared \cup {h} ELSE cleared
        /\ view' = [view EXCEPT ![h] = NoView]
        /\ last' = [op |-> "release", arg |-> h, val |-> "void"]
        /\ UNCHANGED <<heap, output, ub>>

\* RobotModel_release: ptr->reset().
Release(h) ==
  /\ ~ub
  /\ h \in Args
  /\ \/ /\ Pre(h) \in {"null", "freed"}
        /\ Undefined("release", h)
     \/ /\ Pre(h) \in {"empty", "populated"}
        /\ px' = [px EXCEPT ![h] = None]
        /\ IF px[h] # None THEN DropRef(px[h])
                           ELSE UNCHANGED <<mstate, use_count, attr>>
        /\ cleared' = IF px[h] # None THEN cleared \cup {h} ELSE cleared
        /\ view' = [view EXCEPT ![h] = NoView]
        /\ last' = [op |-> "release", arg |-> h, val |-> "void"]
        /\ UNCHANGED <<heap, output, ub>>

\* The external loader or another holder assigns a model to the handle's
\* shared pointer: *ptr = model.  m is a model the loader has just built from
\* description d, or a live model another handle already shares.
Populate(h, m, d) ==
  /\ ~ub
  /\ heap[h] = "alloc"
  /\ \/ /\ mstate[m] = "unborn"
        /\ \A x \in Models : mstate[x] = "unborn" => m <= x
     \/ /\ mstate[m] = "live"
        /\ d = attr[m]
  /\ LET old == px[h]
         inc == [use_count EXCEPT ![m] = @ + 1]
         cnt == IF old # None THEN [inc EXCEPT ![old] = @ - 1] ELSE inc
         gone(x) == x # m /\ x = old /\ cnt[x] = 0
     IN /\ use_count' = cnt
        /\ mstate' = [x \in Models |->
                        IF x = m THEN "live"
                        ELSE IF gone(x) THEN "freed" ELSE mstate[x]]
        /\ attr' = [x \in Models |->
                      IF x = m THEN d
                      ELSE IF gone(x) THEN NoDescription ELSE attr[x]]
  /\ px' = [px EXCEPT ![h] = m]
  /\ view' = [view EXCEPT ![h] = NoView]
  /\ cleared' = cleared \ {h}
  /\ last' = [op |-> "assign", arg |-> h, val |-> m]
  /\ UNCHANGED <<heap, output, ub>>

\* A query that returns a text view: the view is handed to the caller and the
\* handle, the models and the output buffer stay as they are.
ReturnText(op, h, s) ==
  /\ last' = [op |-> op, arg |-> h, val |-> c_str(s)]
  /\ view' = [view EXCEPT ![h] = [op |-> op, m |-> px[h], val |-> c_str(s)]]
  /\ UNCHANGED <<heap, px, mstate, use_count, attr, output, cleared, ub>>

\* Variant of GetName: forwards to the wrong accessor.
GetNameWrongAccessor(h) ==
  /\ ~ub
  /\ h \in Args
  /\ IF Pre(h) = "populated"
       THEN ReturnText("getName", h, attr[px[h]].model_frame)
       ELSE Undefined("getName", h)

\* Variant of GetName: checks the handle and returns an empty text for a
\* null or empty one.
GetNameChecked(h) ==
  /\ ~ub
  /\ h \in Args
  /\ Pre(h) # "freed"
  /\ IF Pre(h) = "populated"
       THEN ReturnText("getName", h, attr[px[h]].model_name)
       ELSE /\ last' = [op |-> "getName", arg |-> h, val |-> <<>>]
            /\ UNCHANGED <<heap, px, mstate, use_count, attr, view, output,
                           cleared, ub>>

\* RobotModel_getName: return (*ptr)->getName().c_str().
GetName(h) ==
  /\ ~ub
  /\ h \in Args
  /\ IF Pre(h) = "populated"
       THEN ReturnText("getName", h, attr[px[h]].model_name)
       ELSE Undefined("getName", h)

\* Variant of GetModelFrame: returns the c_str() of a temporary copy, whose
\* storage is gone when the function returns.
GetModelFrameOfTemporary(h) ==
  /\ ~ub
  /\ h \in Args
  /\ IF Pre(h) = "populated"
       THEN \E s \in {attr[px[h]].model_frame, <<"?">>} :
              ReturnText("getModelFrame", h, s)
       ELSE Undefined("getModelFrame", h)

\* RobotModel_getModelFrame: return (*ptr)->getModelFrame().c_str().
GetModelFrame(h) ==
  /\ ~ub
  /\ h \in Args
  /\ IF Pre(h) = "populated"
       THEN ReturnText("getModelFrame", h, attr[px[h]].model_frame)
       ELSE Undefined("getModelFrame", h)

\* RobotModel_getRootJointName: return (*ptr)->getRootJointName().c_str().
GetRootJointName(h) ==
  /\ ~ub
  /\ h \in Args
  /\ IF Pre(h) = "populated"
       THEN ReturnText("getRootJointName", h, attr[px[h]].root_joint)
       ELSE Undefined("getRootJointName", h)

\* RobotModel_isEmpty: return (*ptr)->isEmpty().
IsEmpty(h) ==
  /\ ~ub
  /\ h \in Args
  /\ IF Pre(h) = "populated"
       THEN /\ last' = [op |-> "isEmpty", arg |-> h, val |-> attr[px[h]].is_empty]
            /\ view' = [view EXCEPT ![h] = NoView]
            /\ UNCHANGED <<heap, px, mstate, use_count, attr, output, cleared, ub>>
       ELSE Undefined("isEmpty", h)

\* What the model's printModelInfo writes to a stream: the whole std::string
\* attributes, embedded '\0' included.
ModelInfo(m) ==
  <<"Model ">> \o attr[m].model_name \o <<" in frame ">> \o attr[m].model_frame

\* Variant of StreamAfterPrint: the text is appended to what the caller's
\* buffer held.
StreamAppended(out, m) == out \o ModelInfo(m)

\* The content of the local std::stringstream s after the model has printed
\* into it: s starts empty.
StreamAfterPrint(out, m) == <<>> \o ModelInfo(m)

\* RobotModel_printModelInfo: (*ptr)->printModelInfo(s); *output = s.str().
PrintModelInfo(h) ==
  /\ ~ub
  /\ h \in Args
  /\ IF Pre(h) = "populated"
       THEN /\ output' = StreamAfterPrint(output, px[h])
            /\ last' = [op |-> "printModelInfo", arg |-> h, val |-> "void"]
            /\ view' = [view EXCEPT ![h] = NoView]
            /\ UNCHANGED <<heap, px, mstate, use_count, attr, cleared, ub>>
       ELSE Undefined("printModelInfo", h)

Next ==
  \/ \E h \in Handles : New(h)
  \/ \E h \in Handles \cup {NULL} : Delete(h)
  \/ \E h \in Handles \cup {NULL} : Release(h)
  \/ \E h \in Handles, m \in Models, d \in Descriptions : Populate(h, m, d)
  \/ \E h \in Handles \cup {NULL} : GetName(h)
  \/ \E h \in Handles \cup {NULL} : GetModelFrame(h)
  \/ \E h \in Handles \cup {NULL} : GetRootJointName(h)
  \/ \E h \in Handles \cup {NULL} : IsEmpty(h)
  \/ \E h \in Handles \cup {NULL} : PrintModelInfo(h)

Spec == Init /\ [][Next]_vars

----------------------------------------------------------------------------
\* The five queries.
QueryOps ==
  {"getName", "getModelFrame", "getRootJointName", "isEmpty", "printModelInfo"}

\* The handles that are allocated and hold model m.
Holders(m) == {h \in Handles : heap[h] = "alloc" /\ px[h] = m}

\* v is s cut before its first '\0' (all of s when s holds none).
CutAtNul(v, s) ==
  /\ Len(v) <= Len(s)
  /\ \A i \in 1..Len(v) : v[i] = s[i] /\ v[i] # NUL
  /\ Len(v) = Len(s) \/ s[Len(v) + 1] = NUL

\* C1: new never reaches undefined behaviour and returns a handle that was
\* not allocated before the call (so it differs from every handle still
\* allocated); after the call that handle is allocated and Empty, every other
\* handle is as it was and no model's reference count or liveness changed.
C1_NewReturnsFreshEmptyHandle ==
  [][last'.op = "new" =>
       LET h == last'.val
       IN /\ ~ub'
          /\ heap[h] # "alloc"
          /\ heap'[h] = "alloc"
          /\ px'[h] = None
          /\ \A g \in Handles \ {h} : heap'[g] = heap[g] /\ px'[g] = px[g]
          /\ use_count' = use_count
          /\ mstate' = mstate]_vars

\* C1 witness: new has just returned while another handle is allocated and
\* Populated.
C1_Witness ==
  /\ last.op = "new"
  /\ ~ub
  /\ \E g \in Handles : g # last.val /\ heap[g] = "alloc" /\ px[g] # None

\* C2: delete on a null, Empty or Populated handle never reaches undefined
\* behaviour, and on null it changes no handle, no reference count and no
\* model.
C2_DeleteSafeAndNullNoOp ==
  [][last'.op = "delete" /\ Pre(last'.arg) \in {"null", "empty", "populated"} =>
       /\ ~ub'
       /\ last'.arg = NULL => UNCHANGED <<heap, px, mstate, use_count, attr>>]_vars

\* C2 witness: delete(NULL) has just returned without error while one handle
\* is Populated and another has been deleted before.
C2_Witness ==
  /\ last.op = "delete"
  /\ last.arg = NULL
  /\ ~ub
  /\ \E g \in Handles : heap[g] = "alloc" /\ px[g] # None
  /\ \E g \in Handles : heap[g] = "freed"

\* C3: release on a Populated handle empties that handle, drops exactly one
\* reference of the model it referred to, leaves the handle allocated and
\* changes no other handle and no other model's count.
C3_ReleaseDropsOneReference ==
  [][last'.op = "release" /\ Pre(last'.arg) = "populated" =>
       LET h == last'.arg
           m == px[h]
       IN /\ ~ub'
          /\ px'[h] = None
          /\ heap'[h] = "alloc"
          /\ use_count'[m] = use_count[m] - 1
          /\ \A g \in Handles \ {h} : heap'[g] = heap[g] /\ px'[g] = px[g]
          /\ \A x \in Models \ {m} : use_count'[x] = use_count[x]]_vars

\* C3 witness: release has just emptied a Populated handle while another
\* handle is still Populated.
C3_Witness ==
  /\ last.op = "release"
  /\ ~ub
  /\ last.arg \in cleared
  /\ \E g \in Handles : g # last.arg /\ heap[g] = "alloc" /\ px[g] # None

\* C4: a model is live exactly when some allocated handle is Populated with
\* it, its reference count is the number of such handles, and a model is
\* freed only once it has been built and no handle holds it any more.
C4_LiveIffHeld ==
  ~ub =>
    \A m \in Models :
      /\ mstate[m] = "live" <=> Holders(m) # {}
      /\ use_count[m] = Cardinality(Holders(m))

\* C4 witness: a handle that held a model has been cleared and no model has
\* been freed, so the model it dropped is still live for another handle.
C4_Witness ==
  /\ ~ub
  /\ cleared # {}
  /\ \E m \in Models : mstate[m] = "live"
  /\ \A m \in Models : mstate[m] # "freed"

\* C5: only delete takes a handle out of the allocated state, a deleted
\* handle never becomes allocated again, and every call on a deleted handle
\* reaches undefined behaviour.
C5_DeleteIsSoleTerminalPath ==
  [][/\ \A h \in Handles :
          /\ heap[h] = "alloc" /\ heap'[h] # "alloc" =>
               last'.op = "delete" /\ last'.arg = h /\ heap'[h] = "freed"
          /\ heap[h] = "freed" => heap'[h] = "freed"
     /\ last'.op \in QueryOps \cup {"delete", "release"}
          /\ Pre(last'.arg) = "freed" => ub']_vars

\* C5 witness: a second delete of an already deleted handle has reached
\* undefined behaviour.
C5_Witness ==
  /\ ub
  /\ last.op = "delete"
  /\ last.arg # NULL
  /\ heap[last.arg] = "freed"

\* C6: a query reaches undefined behaviour exactly when its handle is not
\* Populated (null, Empty, or deleted), and release on a null handle reaches
\* undefined behaviour.
C6_QueriesUnchecked ==
  [][/\ last'.op \in QueryOps => (ub' <=> Pre(last'.arg) # "populated")
     /\ last'.op = "release" /\ Pre(last'.arg) = "null" => ub']_vars

\* C6 witness: a query on a handle that was Populated and then cleared has
\* reached undefined behaviour.
C6_Witness ==
  /\ ub
  /\ last.op \in QueryOps
  /\ last.arg \in cleared

\* C7: two handles whose latest call was getModelFrame on the same model
\* hold the same text.
C7_SharedModelSameFrame ==
  ~ub =>
    \A h1, h2 \in Handles :
      /\ view[h1].op = "getModelFrame"
      /\ view[h2].op = "getModelFrame"
      /\ view[h1].m = view[h2].m
      => view[h1].val = view[h2].val

\* C7 witness: two distinct handles share a model and both have returned its
\* frame.
C7_Witness ==
  /\ ~ub
  /\ \E h1, h2 \in Handles :
       /\ h1 # h2
       /\ view[h1].op = "getModelFrame"
       /\ view[h2].op = "getModelFrame"
       /\ view[h1].m = view[h2].m
       /\ view[h1].val # <<>>

\* C8 as stated: the text getName returned on a handle is the name of the
\* model the handle is Populated with.
C8_GetNameReturnsName ==
  \A h \in Handles :
    view[h].op = "getName" => view[h].val = attr[view[h].m].model_name

\* C8 amended: the text getName returned is the model's name cut before its
\* first '\0', hence the whole name when the name holds no '\0'.
C8_GetNameReturnsNameUpToNul ==
  ~ub =>
    \A h \in Handles :
      view[h].op = "getName" =>
        /\ px[h] = view[h].m
        /\ CutAtNul(view[h].val, attr[view[h].m].model_name)

\* C8 witness: getName has returned the whole, non-empty name of a model.
C8_Witness ==
  /\ ~ub
  /\ \E h \in Handles :
       /\ view[h].op = "getName"
       /\ view[h].val # <<>>
       /\ view[h].val = attr[view[h].m].model_name

\* C9: a text view returned on a handle, with no later call on that handle,
\* points into a model that is still live and that the handle still holds.
C9_ViewStorageLive ==
  ~ub =>
    \A h \in Handles :
      view[h].op # "none" =>
        /\ heap[h] = "alloc"
        /\ px[h] = view[h].m
        /\ mstate[view[h].m] = "live"

\* C9 witness: a view is outstanding on one handle and the last call cleared
\* another handle that shared the model (no model has been freed).
C9_Witness ==
  /\ ~ub
  /\ last.op = "release"
  /\ last.arg \in cleared
  /\ \E h \in Handles : h # last.arg /\ view[h].op # "none"
  /\ \A m \in Models : mstate[m] # "freed"

\* C10: a query on a Populated handle changes no handle, no model and no
\* reference count; printModelInfo sets the caller's buffer to the model's
\* dump text alone, and the other queries leave the buffer as it was.
C10_QueriesReadOnly ==
  [][last'.op \in QueryOps /\ Pre(last'.arg) = "populated" =>
       /\ ~ub'
       /\ UNCHANGED <<heap, px, mstate, use_count, attr>>
       /\ IF last'.op = "printModelInfo"
            THEN output' = ModelInfo(px[last'.arg])
            ELSE output' = output]_vars

\* C10 witness: printModelInfo has just filled the buffer with the dump of a
\* model while another live model has a different dump.
C10_Witness ==
  /\ ~ub
  /\ last.op = "printModelInfo"
  /\ output = ModelInfo(px[last.arg])
  /\ \E m \in Models : mstate[m] = "live" /\ ModelInfo(m) # output
====
